---- MODULE Spec2Model ----
(***************************************************************************)
(* Model of genro_api.Publisher (src/genro_api/publisher.py): the publish  *)
(* lifecycle, the transport pass (_generate_rest_endpoints and             *)
(* _generate_child_endpoints), the presentation pass                       *)
(* (_register_ui_components), the ordering engine                          *)
(* (_get_ordered_ui_registry), the request schema and the handlers built   *)
(* by _create_endpoint, and _map_type_string.                              *)
(*                                                                         *)
(* Python dicts keep insertion order and an assignment to an existing key  *)
(* keeps the key's position: a dict is a sequence of records with a "key"  *)
(* field (DictHas, DictGet, DictSet, DictKeys).                            *)
(***************************************************************************)
EXTENDS Naturals, Sequences, FiniteSets, TLC

VARIABLES
  enable_rest,          \* Publisher.enable_rest
  enable_ui,            \* Publisher.enable_ui
  base_paths,           \* Publisher._base_paths: set of root base paths
  published_instances,  \* Publisher._published_instances: list of (instance, cls)
  rest_routers,         \* Publisher._rest_routers: dict base_path -> APIRouter
  app_routes,           \* Publisher.app routes added by app.include_router
  ui_registry,          \* Publisher._ui_registry: dict base_path -> entry
  last_outcome,         \* how the last publish call ended: "ok" or the exception
  exchange,             \* the last call of a route's handler and its result
  ordered_registry,     \* the base paths _get_ordered_ui_registry returned last
  heap,                 \* the domain objects alive and the data each holds
  publish_calls         \* per calling thread: where its publish call stands

vars == <<enable_rest, enable_ui, base_paths, published_instances,
          rest_routers, app_routes, ui_registry, last_outcome, exchange,
          ordered_registry, heap, publish_calls>>

\* The registries of the Publisher, without the outcome of the last call.
registries == <<base_paths, published_instances, rest_routers, app_routes, ui_registry>>

-----------------------------------------------------------------------------
(* Strings.  TLC cannot index a string, so the code points of every string *)
(* that is sorted, lower-cased or prefix-tested are tabulated.             *)

UnderscoreCode == 95
UpperA == 65
UpperZ == 90
CaseOffset == 32

ord(s) ==
  CASE s = "" -> <<>>
    [] s = "/crypt" -> <<47, 99, 114, 121, 112, 116>>
    [] s = "Crypt" -> <<67, 114, 121, 112, 116>>
    [] s = "/conf" -> <<47, 99, 111, 110, 102>>
    [] s = "DbCONFIG" -> <<68, 98, 67, 79, 78, 70, 73, 71>>
    [] s = "/library" -> <<47, 108, 105, 98, 114, 97, 114, 121>>
    [] s = "/shelf" -> <<47, 115, 104, 101, 108, 102>>
    [] s = "/aaa_config" -> <<47, 97, 97, 97, 95, 99, 111, 110, 102, 105, 103>>
    [] s = "/prefs" -> <<47, 112, 114, 101, 102, 115>>
    [] s = "/bbb" -> <<47, 98, 98, 98>>
    [] s = "/desk" -> <<47, 100, 101, 115, 107>>
    [] s = "/ghost" -> <<47, 103, 104, 111, 115, 116>>
    [] s = "/dept" -> <<47, 100, 101, 112, 116>>
    [] s = "/aisle" -> <<47, 97, 105, 115, 108, 101>>
    [] s = "/zzz" -> <<47, 122, 122, 122>>
    [] s = "/box" -> <<47, 98, 111, 120>>
    [] s = "/portal" -> <<47, 112, 111, 114, 116, 97, 108>>
    [] s = "/broken" -> <<47, 98, 114, 111, 107, 101, 110>>
    [] s = "/legacy" -> <<47, 108, 101, 103, 97, 99, 121>>
    [] s = "/vault" -> <<47, 118, 97, 117, 108, 116>>
    [] s = "/safe" -> <<47, 115, 97, 102, 101>>
    [] s = "/key" -> <<47, 107, 101, 121>>
    [] s = "/bag" -> <<47, 98, 97, 103>>
    [] s = "Library" -> <<76, 105, 98, 114, 97, 114, 121>>
    [] s = "ShelfManager" -> <<83, 104, 101, 108, 102, 77, 97, 110, 97, 103, 101, 114>>
    [] s = "InvalidClass" -> <<73, 110, 118, 97, 108, 105, 100, 67, 108, 97, 115, 115>>
    [] s = "SiteConfig" -> <<83, 105, 116, 101, 67, 111, 110, 102, 105, 103>>
    [] s = "Prefs" -> <<80, 114, 101, 102, 115>>
    [] s = "Store" -> <<83, 116, 111, 114, 101>>
    [] s = "Desk" -> <<68, 101, 115, 107>>
    [] s = "Ghost" -> <<71, 104, 111, 115, 116>>
    [] s = "Dept" -> <<68, 101, 112, 116>>
    [] s = "Aisle" -> <<65, 105, 115, 108, 101>>
    [] s = "Archive" -> <<65, 114, 99, 104, 105, 118, 101>>
    [] s = "Box" -> <<66, 111, 120>>
    [] s = "Shelving" -> <<83, 104, 101, 108, 118, 105, 110, 103>>
    [] s = "Portal" -> <<80, 111, 114, 116, 97, 108>>
    [] s = "Broken" -> <<66, 114, 111, 107, 101, 110>>
    [] s = "Legacy" -> <<76, 101, 103, 97, 99, 121>>
    [] s = "Vault" -> <<86, 97, 117, 108, 116>>
    [] s = "Safe" -> <<83, 97, 102, 101>>
    [] s = "Key" -> <<75, 101, 121>>
    [] s = "Bag" -> <<66, 97, 103>>
    [] s = "str" -> <<115, 116, 114>>
    [] s = "shelf" -> <<115, 104, 101, 108, 102>>
    [] s = "db_path" -> <<100, 98, 95, 112, 97, 116, 104>>
    [] s = "_library" -> <<95, 108, 105, 98, 114, 97, 114, 121>>
    [] s = "prefs" -> <<112, 114, 101, 102, 115>>
    [] s = "desk" -> <<100, 101, 115, 107>>
    [] s = "dept" -> <<100, 101, 112, 116>>
    [] s = "danger" -> <<100, 97, 110, 103, 101, 114>>
    [] s = "aisle" -> <<97, 105, 115, 108, 101>>
    [] s = "box_a" -> <<98, 111, 120, 95, 97>>
    [] s = "box_b" -> <<98, 111, 120, 95, 98>>
    [] s = "lib" -> <<108, 105, 98>>
    [] s = "_safe_old" -> <<95, 115, 97, 102, 101, 95, 111, 108, 100>>
    [] s = "safe" -> <<115, 97, 102, 101>>
    [] s = "_key" -> <<95, 107, 101, 121>>
    [] s = "bag" -> <<98, 97, 103>>

\* Python's str comparison a < b: lexicographic on code points.
RECURSIVE SeqLess(_, _)
SeqLess(a, b) ==
  IF a = <<>> THEN b # <<>>
  ELSE IF b = <<>> THEN FALSE
  ELSE IF Head(a) # Head(b) THEN Head(a) < Head(b)
  ELSE SeqLess(Tail(a), Tail(b))

StrLess(a, b) == SeqLess(ord(a), ord(b))

\* The least of a non-empty set of distinct strings.
min_str(S) == CHOOSE x \in S : \A y \in S \ {x} : StrLess(x, y)

\* The strings of S in descending order: the sort turned around.
RECURSIVE reverse_sorted(_)
reverse_sorted(S) ==
  IF S = {} THEN <<>>
  ELSE reverse_sorted(S \ {min_str(S)}) \o <<min_str(S)>>

\* sorted(S) for a collection of distinct strings.
RECURSIVE sorted(_)
sorted(S) ==
  IF S = {} THEN <<>>
  ELSE <<min_str(S)>> \o sorted(S \ {min_str(S)})

\* attr_name.startswith('_')
startswith_underscore(s) == ord(s) # <<>> /\ Head(ord(s)) = UnderscoreCode

\* str.lower() on code points: A..Z move to a..z.
lower(cs) ==
  [i \in 1..Len(cs) |->
     IF cs[i] >= UpperA /\ cs[i] <= UpperZ THEN cs[i] + CaseOffset ELSE cs[i]]

\* needle in hay, on code points.
contains(hay, needle) ==
  \E i \in 0..Len(hay) :
    /\ i + Len(needle) <= Len(hay)
    /\ \A j \in 1..Len(needle) : hay[i + j] = needle[j]

\* The code points of "config".
ConfigWord == <<99, 111, 110, 102, 105, 103>>

\* "config" in class_name.lower()
is_config_class(class_name) == contains(lower(ord(class_name)), ConfigWord)

-----------------------------------------------------------------------------
(* Ordered dicts.                                                          *)

DictKeys(d) == [i \in 1..Len(d) |-> d[i].key]
KeySet(d) == {d[i].key : i \in 1..Len(d)}
DictHas(d, k) == k \in KeySet(d)
DictGet(d, k) == d[CHOOSE i \in 1..Len(d) : d[i].key = k]
\* d[k] = v: in place when k is present, appended otherwise.
DictSet(d, e) ==
  IF DictHas(d, e.key)
  THEN [i \in 1..Len(d) |-> IF d[i].key = e.key THEN e ELSE d[i]]
  ELSE Append(d, e)

\* Python's None, where a base path may stand (no base path is spelled so).
None == "<None>"

\* Python's Ellipsis (...): the marker of a parameter without a default.
Ellipsis == "<Ellipsis>"

-----------------------------------------------------------------------------
(* The inbound contract: what get_api_structure(instance, eager=True,      *)
(* mode="dict") returns (genro_core, an external collaborator), and the    *)
(* runtime instances handed to publish.                                    *)

\* One parameter spec of an endpoint descriptor.
param(name, type, required, default) ==
  [name |-> name, type |-> type, required |-> required, default |-> default]

\* One endpoint descriptor.
endpoint(function_name, method, parameters) ==
  [function_name |-> function_name, path |-> "/" \o function_name,
   method |-> method, parameters |-> parameters]

\* One component descriptor.
structure(class_name, base_path, endpoints, children) ==
  [class_name |-> class_name, base_path |-> base_path,
   endpoints |-> endpoints, children |-> children]

\* The Library example, with two endpoints of each class.
ShelfStructure ==
  structure("ShelfManager", "/shelf",
            <<endpoint("list_books", "GET", <<param("shelf_code", "str", TRUE, None)>>),
              endpoint("count_books", "POST", <<param("shelf_code", "str", TRUE, None)>>)>>,
            <<>>)

LibraryStructure ==
  structure("Library", "/library",
            <<endpoint("list_shelves", "GET", <<>>),
              endpoint("get_stats", "GET", <<>>)>>,
            <<ShelfStructure>>)

\* A configuration-class root with a child of its own.
ConfigStructure ==
  structure("SiteConfig", "/aaa_config",
            <<endpoint("get_config", "GET", <<>>)>>,
            <<structure("Prefs", "/prefs", <<endpoint("get_prefs", "GET", <<>>)>>, <<>>)>>)

\* A second configuration-class root, its class name in another case.
ConfStructure ==
  structure("DbCONFIG", "/conf", <<endpoint("get_dsn", "GET", <<>>)>>, <<>>)

\* A component with a child of its own; published as a root or found as a
\* child of Store.
DeptStructure ==
  structure("Dept", "/dept", <<endpoint("list_items", "GET", <<>>)>>,
            <<structure("Aisle", "/aisle", <<endpoint("walk", "GET", <<>>)>>, <<>>)>>)

\* A root with a resolvable child, a child no attribute matches, and a
\* resolvable child that has a resolvable child of its own.
StoreStructure ==
  structure("Store", "/bbb",
            <<endpoint("get_name", "GET", <<>>)>>,
            <<structure("Desk", "/desk", <<endpoint("open", "POST", <<>>)>>, <<>>),
              structure("Ghost", "/ghost", <<endpoint("haunt", "GET", <<>>)>>,
                        <<structure("Crypt", "/crypt", <<endpoint("dig", "GET", <<>>)>>, <<>>)>>),
              DeptStructure>>)

\* A root whose descriptor reaches the same child base path twice, and one
\* endpoint whose verb is neither GET nor POST.
ArchiveStructure ==
  structure("Archive", "/zzz",
            <<endpoint("purge", "PUT", <<>>), endpoint("size", "GET", <<>>)>>,
            <<structure("Box", "/box", <<endpoint("peek", "GET", <<>>)>>, <<>>),
              structure("Box", "/box", <<endpoint("peek", "GET", <<>>)>>, <<>>)>>)

\* A root whose own base path is the base path of Library's child.
ShelvingStructure ==
  structure("Shelving", "/shelf", <<endpoint("list_units", "GET", <<>>)>>, <<>>)

\* A root that declares a Library as its child.
PortalStructure ==
  structure("Portal", "/portal", <<endpoint("home", "GET", <<>>)>>, <<LibraryStructure>>)

\* A root whose descriptor names a function the instance does not have.
LegacyStructure ==
  structure("Legacy", "/legacy",
            <<endpoint("ping", "GET", <<>>), endpoint("gone", "GET", <<>>)>>,
            <<>>)

\* A root whose children sit on underscore-prefixed attributes or are falsy.
VaultStructure ==
  structure("Vault", "/vault",
            <<endpoint("status", "GET", <<>>)>>,
            <<structure("Safe", "/safe", <<endpoint("unlock", "POST", <<>>)>>, <<>>),
              structure("Key", "/key", <<endpoint("turn", "POST", <<>>)>>, <<>>),
              structure("Bag", "/bag", <<endpoint("count", "GET", <<>>)>>, <<>>)>>)

\* A root with the four handler shapes and with parameters of every kind:
\* required or optional, with no default, the empty string, None, the
\* string "None" or another value, of basic and of parameterised types.
ServiceStructure ==
  structure("Service", "/svc",
            <<endpoint("ping", "GET", <<>>),
              endpoint("reset", "POST", <<>>),
              endpoint("search", "GET",
                       <<param("x", "str", TRUE, Ellipsis), param("y", "str", FALSE, "")>>),
              endpoint("create", "POST",
                       <<param("x", "Any", TRUE, Ellipsis), param("y", "str", FALSE, "")>>),
              endpoint("find", "GET",
                       <<param("a", "int", FALSE, Ellipsis), param("c", "float", FALSE, None),
                         param("d", "bool", FALSE, "None"), param("e", "list[str]", FALSE, "abc"),
                         param("f", "dict", TRUE, "zzz")>>),
              endpoint("update", "POST",
                       <<param("a", "list", FALSE, Ellipsis), param("c", "dict[str, int]", FALSE, None),
                         param("d", "any", FALSE, "None"), param("e", "Book", FALSE, "abc"),
                         param("f", "str", TRUE, "")>>)>>,
            <<>>)

\* A descriptor that carries no base path of its own.
BareStructure == structure("Bare", "", <<endpoint("ping", "GET", <<>>)>>, <<>>)

NoStructure == structure("", "", <<>>, <<>>)

attr(name, obj) == [name |-> name, obj |-> obj, raises |-> FALSE]
raising_attr(name) == [name |-> name, obj |-> None, raises |-> TRUE]

\* A runtime object: cls is type(obj).__name__; has_base_path and
\* api_base_path are cls._api_base_path; truthy is bool(obj); attrs are its
\* data attributes (a bound method's class is "method", which no descriptor
\* names); methods are the function names hasattr finds on it;
\* introspect_raises says whether get_api_structure raises on it.
object(cls, has_base_path, api_base_path, truthy, attrs, methods, introspect_raises, struct) ==
  [cls |-> cls, has_base_path |-> has_base_path, api_base_path |-> api_base_path,
   truthy |-> truthy, attrs |-> attrs, methods |-> methods,
   introspect_raises |-> introspect_raises, structure |-> struct]

leaf(cls, methods) == object(cls, FALSE, "", TRUE, {}, methods, FALSE, NoStructure)

Objects ==
  [library1 |-> object("Library", TRUE, "/library", TRUE,
                       {attr("shelf", "shelf1"), attr("db_path", "text1")},
                       {"list_shelves", "get_stats"}, FALSE, LibraryStructure),
   library2 |-> object("Library", TRUE, "/library", TRUE,
                       {attr("shelf", "shelf2"), attr("db_path", "text1")},
                       {"list_shelves", "get_stats"}, FALSE, LibraryStructure),
   shelf1   |-> object("ShelfManager", TRUE, "/shelf", TRUE, {attr("_library", "library1")},
                       {"list_books", "count_books"}, FALSE, ShelfStructure),
   shelf2   |-> object("ShelfManager", TRUE, "/shelf", TRUE, {attr("_library", "library2")},
                       {"list_books", "count_books"}, FALSE, ShelfStructure),
   text1    |-> leaf("str", {}),
   invalid1 |-> object("InvalidClass", FALSE, "", TRUE, {}, {}, FALSE, NoStructure),
   config1  |-> object("SiteConfig", TRUE, "/aaa_config", TRUE, {attr("prefs", "prefs1")},
                       {"get_config"}, FALSE, ConfigStructure),
   prefs1   |-> leaf("Prefs", {"get_prefs"}),
   config2  |-> object("DbCONFIG", TRUE, "/conf", TRUE, {}, {"get_dsn"}, FALSE,
                       ConfStructure),
   store1   |-> object("Store", TRUE, "/bbb", TRUE,
                       {attr("desk", "desk1"), attr("dept", "dept1"), raising_attr("danger")},
                       {"get_name"}, FALSE, StoreStructure),
   desk1    |-> leaf("Desk", {"open"}),
   dept1    |-> object("Dept", TRUE, "/dept", TRUE, {attr("aisle", "aisle1")},
                       {"list_items"}, FALSE, DeptStructure),
   aisle1   |-> leaf("Aisle", {"walk"}),
   archive1 |-> object("Archive", TRUE, "/zzz", TRUE,
                       {attr("box_a", "box1"), attr("box_b", "box2")},
                       {"purge", "size"}, FALSE, ArchiveStructure),
   box1     |-> leaf("Box", {"peek"}),
   box2     |-> leaf("Box", {"peek"}),
   shelving1 |-> object("Shelving", TRUE, "/shelf", TRUE, {}, {"list_units"}, FALSE,
                        ShelvingStructure),
   portal1  |-> object("Portal", TRUE, "/portal", TRUE, {attr("lib", "library2")},
                       {"home"}, FALSE, PortalStructure),
   svc1     |-> object("Service", TRUE, "/svc", TRUE, {},
                       {"ping", "reset", "search", "create", "find", "update"},
                       FALSE, ServiceStructure),
   broken1  |-> object("Broken", TRUE, "/broken", TRUE, {}, {}, TRUE, NoStructure),
   bare1    |-> object("Bare", TRUE, "/bare", TRUE, {}, {"ping"}, FALSE, BareStructure),
   legacy1  |-> object("Legacy", TRUE, "/legacy", TRUE, {}, {"ping"}, FALSE, LegacyStructure),
   vault1   |-> object("Vault", TRUE, "/vault", TRUE,
                       {attr("_safe_old", "safe2"), attr("safe", "safe1"),
                        attr("_key", "key1"), attr("bag", "bag1")},
                       {"status"}, FALSE, VaultStructure),
   safe1    |-> leaf("Safe", {"unlock"}),
   safe2    |-> leaf("Safe", {"unlock"}),
   key1     |-> leaf("Key", {"turn"}),
   bag1     |-> object("Bag", FALSE, "", FALSE, {}, {"count"}, FALSE, NoStructure)]

\* The instances a caller hands to publish.
Instances ==
  {"library1", "library2", "invalid1", "config1", "store1", "archive1",
   "shelving1", "broken1", "legacy1"}

\* The instances of the aliasing scenarios: roots that declare or are
\* another root's component, children on underscore-prefixed attributes,
\* falsy children.
WideInstances == {"library1", "shelving1", "portal1", "vault1", "invalid1"}

\* The instances of the ordering scenarios: primary roots with subtrees,
\* two configuration roots, and a component published both on its own and
\* as the child of a later root.
OrderInstances == {"store1", "dept1", "archive1", "config1", "config2"}

\* The instances of the serving scenarios.
ServeInstances == {"svc1", "shelving1", "invalid1"}

\* How many publish calls pass the duplicate check in one run.
MaxPublishes == 3

-----------------------------------------------------------------------------
(* Child resolution.                                                       *)

\* dir(obj): the attribute names, sorted.
dir(obj) == sorted({a.name : a \in Objects[obj].attrs})

getattr(obj, name) == CHOOSE a \in Objects[obj].attrs : a.name = name

\* getattr returned a (it did not raise) and
\* attr.__class__.__name__ == child_class_name
class_matches(a, child_class_name) ==
  ~a.raises /\ Objects[a.obj].cls = child_class_name

\* Whether the loop looks at the attribute: _generate_child_endpoints skips
\* the names starting with '_', collect_classes skips none.
scanned(name, skip_private) == ~(skip_private /\ startswith_underscore(name))

\* The positions in names of the attributes the loop would break on.
matches(obj, names, child_class_name, skip_private) ==
  {i \in 1..Len(names) :
     /\ scanned(names[i], skip_private)
     /\ class_matches(getattr(obj, names[i]), child_class_name)}

\* The attribute the loop breaks on: the first match; None when the loop
\* ends without a break.
first_of(obj, names, hits) ==
  IF hits = {} THEN None
  ELSE getattr(obj, names[CHOOSE i \in hits : \A j \in hits : i <= j]).obj

first_match(obj, child_class_name, skip_private) ==
  first_of(obj, dir(obj), matches(obj, dir(obj), child_class_name, skip_private))

\* _generate_child_endpoints: attributes starting with '_' are skipped.
find_child_rest(parent_instance, child_class_name) ==
  first_match(parent_instance, child_class_name, TRUE)

\* collect_classes: every attribute is scanned.
find_child_ui(inst, child_class_name) ==
  first_match(inst, child_class_name, FALSE)

-----------------------------------------------------------------------------
(* The transport pass.  Every operator maps the Publisher's registries reg *)
(* (a record of base_paths, published_instances, rest_routers, app_routes, *)
(* ui_registry, and outcome: None while publish runs, then "ok" or the     *)
(* exception that left it) to the registries after it.                     *)

\* The Python types _map_type_string returns.
PyStr == "<class 'str'>"
PyInt == "<class 'int'>"
PyFloat == "<class 'float'>"
PyBool == "<class 'bool'>"
PyDict == "<class 'dict'>"
PyList == "<class 'list'>"
PyAny == "typing.Any"

\* A parameterised list or dict taken for its container type.
map_container_of(type_str) ==
  CASE type_str = "str" -> PyStr
    [] type_str = "int" -> PyInt
    [] type_str = "float" -> PyFloat
    [] type_str = "bool" -> PyBool
    [] type_str \in {"dict", "dict[str, int]"} -> PyDict
    [] type_str \in {"list", "list[str]"} -> PyList
    [] OTHER -> PyAny

\* _map_type_string(type_str): the type_mapping dict, Any for the rest.
map_type_string(type_str) ==
  CASE type_str = "str" -> PyStr
    [] type_str = "int" -> PyInt
    [] type_str = "float" -> PyFloat
    [] type_str = "bool" -> PyBool
    [] type_str = "dict" -> PyDict
    [] type_str = "list" -> PyList
    [] type_str = "Any" -> PyAny
    [] OTHER -> PyAny

\* One field of a request schema or one slot of a handler signature: its
\* name, its type, whether None is admitted too (field_type | None), and
\* its default, Ellipsis for a mandatory one.
field(name, type, nullable, default) ==
  [name |-> name, type |-> type, nullable |-> nullable, default |-> default]

\* An empty-string default decoded as None.
model_field_null_for_empty(param_info) ==
  IF ~param_info.required
  THEN IF param_info.default = "" \/ param_info.default = "None" \/ param_info.default = None
       THEN field(param_info.name, map_type_string(param_info.type), TRUE, None)
       ELSE field(param_info.name, map_type_string(param_info.type), FALSE,
                  param_info.default)
  ELSE field(param_info.name, map_type_string(param_info.type), FALSE, Ellipsis)

\* fields[param_name] = (field_type, default): one field of the Pydantic model.
model_field(param_info) ==
  IF ~param_info.required
  THEN IF param_info.default = ""
       THEN field(param_info.name, map_type_string(param_info.type), FALSE, "")
       ELSE IF param_info.default = "None" \/ param_info.default = None
       THEN field(param_info.name, map_type_string(param_info.type), TRUE, None)
       ELSE field(param_info.name, map_type_string(param_info.type), FALSE,
                  param_info.default)
  ELSE field(param_info.name, map_type_string(param_info.type), FALSE, Ellipsis)

\* request_model = create_model(model_name, **fields)
create_model(params) == [n \in 1..Len(params) |-> model_field(params[n])]

\* The declared default offered for a required parameter too.
sig_param_with_default(param_info) ==
  IF param_info.default = "None" \/ param_info.default = None
  THEN field(param_info.name, map_type_string(param_info.type), FALSE, None)
  ELSE field(param_info.name, map_type_string(param_info.type), FALSE,
             param_info.default)

\* inspect.Parameter(param_name, default=Query(...), annotation=field_type)
sig_param(param_info) ==
  IF param_info.required
  THEN field(param_info.name, map_type_string(param_info.type), FALSE, Ellipsis)
  ELSE IF param_info.default = "None" \/ param_info.default = None
  THEN field(param_info.name, map_type_string(param_info.type), FALSE, None)
  ELSE IF param_info.default = ""
  THEN field(param_info.name, map_type_string(param_info.type), FALSE, "")
  ELSE field(param_info.name, map_type_string(param_info.type), FALSE,
             param_info.default)

\* inspect.Signature(sig_params) of the GET handler
signature(params) == [n \in 1..Len(params) |-> sig_param(params[n])]

\* The handler _create_endpoint builds: where its arguments are read from
\* and the slots they are validated against.  `if request_model:` is the
\* test `if params:`.
make_handler(method, params) ==
  IF params = <<>> THEN [reads |-> "nothing", fields |-> <<>>]
  ELSE IF method = "GET" THEN [reads |-> "query", fields |-> signature(params)]
  ELSE [reads |-> "body", fields |-> create_model(params)]

\* _create_endpoint: the routes it adds to the router (none or one).
create_endpoint(prefix, instance, endpoint_info) ==
  IF endpoint_info.function_name \notin Objects[instance].methods THEN <<>>
  ELSE IF endpoint_info.method \in {"GET", "POST"}
  THEN <<[prefix |-> prefix, path |-> endpoint_info.path,
          method |-> endpoint_info.method, instance |-> instance,
          function_name |-> endpoint_info.function_name,
          parameters |-> endpoint_info.parameters,
          handler |-> make_handler(endpoint_info.method, endpoint_info.parameters)]>>
  ELSE <<>>

\* The loop left at the first endpoint that gets no route.
RECURSIVE create_endpoints_until_unbindable(_, _, _)
create_endpoints_until_unbindable(prefix, instance, endpoints) ==
  IF endpoints = <<>> THEN <<>>
  ELSE IF create_endpoint(prefix, instance, Head(endpoints)) = <<>> THEN <<>>
  ELSE create_endpoint(prefix, instance, Head(endpoints))
         \o create_endpoints_until_unbindable(prefix, instance, Tail(endpoints))

\* for endpoint_info in endpoints: self._create_endpoint(router, instance, endpoint_info)
RECURSIVE create_endpoints(_, _, _)
create_endpoints(prefix, instance, endpoints) ==
  IF endpoints = <<>> THEN <<>>
  ELSE create_endpoint(prefix, instance, Head(endpoints))
         \o create_endpoints(prefix, instance, Tail(endpoints))

\* APIRouter(prefix=..., tags=[...]) with its endpoints created.
new_router(prefix, tag, instance, endpoints) ==
  [key |-> prefix, tag |-> tag, routes |-> create_endpoints(prefix, instance, endpoints)]

\* self._rest_routers[path] = router; self.app.include_router(router)
register_router(reg, router) ==
  [reg EXCEPT !.rest_routers = DictSet(@, router),
              !.app_routes = @ \o router.routes]

\* The part of _generate_child_endpoints after the attribute scan.
register_child(reg, child_instance, child_structure) ==
  IF child_instance = None THEN reg
  ELSE register_router(reg,
         new_router(child_structure.base_path, child_structure.class_name,
                    child_instance, child_structure.endpoints))

\* The child's router mounted below the base path of the parent's class.
generate_child_endpoints_nested(reg, parent_instance, child_structure) ==
  register_child(reg, find_child_rest(parent_instance, child_structure.class_name),
                 [child_structure EXCEPT
                    !.base_path = Objects[parent_instance].api_base_path \o @])

\* _generate_child_endpoints(parent_instance, child_structure)
generate_child_endpoints(reg, parent_instance, child_structure) ==
  register_child(reg, find_child_rest(parent_instance, child_structure.class_name),
                 child_structure)

\* for child_structure in structure["children"]: ...
RECURSIVE generate_children_endpoints(_, _, _)
generate_children_endpoints(reg, parent_instance, children) ==
  IF children = <<>> THEN reg
  ELSE generate_children_endpoints(
         generate_child_endpoints(reg, parent_instance, Head(children)),
         parent_instance, Tail(children))

\* The router of the published class itself.
own_router(instance) ==
  new_router(Objects[instance].api_base_path, Objects[instance].cls, instance,
             Objects[instance].structure.endpoints)

\* _generate_rest_endpoints(instance, cls): a failed introspection is
\* logged and raised again.
generate_rest_endpoints(reg, instance) ==
  IF Objects[instance].introspect_raises
  THEN [reg EXCEPT !.outcome = "introspection_error"]
  ELSE generate_children_endpoints(register_router(reg, own_router(instance)),
                                   instance, Objects[instance].structure.children)

-----------------------------------------------------------------------------
(* The presentation pass.                                                  *)

\* Python truthiness of a base path: neither None nor the empty string.
truthy_path(path) == path # None /\ path # ""

\* `if child_instance:` in collect_classes.
truthy_instance(obj) == obj # None /\ Objects[obj].truthy

\* struct.get("base_path") or parent_path
class_path(struct, parent_path) ==
  IF struct.base_path # "" THEN struct.base_path ELSE parent_path

\* collect_classes(inst, struct, parent_path) and its loop over the children,
\* on the dict classes_to_register {base_path: (instance, structure, parent_path)}.
RECURSIVE collect_classes(_, _, _, _)
RECURSIVE collect_at(_, _, _, _, _)
RECURSIVE collect_children(_, _, _, _)
RECURSIVE collect_child(_, _, _, _)
collect_classes(classes_to_register, inst, struct, parent_path) ==
  collect_at(classes_to_register, inst, struct, parent_path,
             class_path(struct, parent_path))

collect_at(classes_to_register, inst, struct, parent_path, cls_path) ==
  IF truthy_path(cls_path) /\ ~DictHas(classes_to_register, cls_path)
  THEN collect_children(
         DictSet(classes_to_register,
                 [key |-> cls_path, inst |-> inst, struct |-> struct,
                  parent |-> parent_path]),
         inst, struct.children, cls_path)
  ELSE classes_to_register

collect_children(classes_to_register, inst, children, cls_path) ==
  IF children = <<>> THEN classes_to_register
  ELSE collect_children(
         collect_child(classes_to_register,
                       find_child_ui(inst, Head(children).class_name),
                       Head(children), cls_path),
         inst, Tail(children), cls_path)

\* The recursion handed the child's own path (child_path) as its parent.
collect_child_under_itself(classes_to_register, child_instance, child_info, cls_path) ==
  IF truthy_instance(child_instance)
  THEN collect_classes(classes_to_register, child_instance, child_info,
                       child_info.base_path)
  ELSE classes_to_register

collect_child(classes_to_register, child_instance, child_info, cls_path) ==
  IF truthy_instance(child_instance)
  THEN collect_classes(classes_to_register, child_instance, child_info, cls_path)
  ELSE classes_to_register

\* The ui_methods list of one collected class.
ui_methods(struct) ==
  [i \in 1..Len(struct.endpoints) |->
     [name |-> struct.endpoints[i].function_name,
      path |-> struct.endpoints[i].path,
      method |-> struct.endpoints[i].method,
      parameters |-> struct.endpoints[i].parameters]]

\* getattr(inst, endpoint_info["function_name"]) raises AttributeError for
\* a function the instance does not have.
bound_methods_exist(inst, struct) ==
  \A i \in 1..Len(struct.endpoints) :
    struct.endpoints[i].function_name \in Objects[inst].methods

registry_entry(path, inst, struct, parent) ==
  [key |-> path, instance |-> inst, class |-> Objects[inst].cls,
   class_name |-> IF struct.class_name # "" THEN struct.class_name ELSE Objects[inst].cls,
   methods |-> ui_methods(struct), parent_path |-> parent]

\* self._ui_registry[path] = registry_entry
register_entry(reg, c) ==
  [reg EXCEPT !.ui_registry = DictSet(@, registry_entry(c.key, c.inst, c.struct, c.parent))]

\* for path, (inst, struct, parent) in classes_to_register.items(): ...
\* The loop stops at the first class whose method list raises.
RECURSIVE register_collected(_, _)
register_collected(reg, classes_to_register) ==
  IF classes_to_register = <<>> THEN [reg EXCEPT !.outcome = "ok"]
  ELSE IF ~bound_methods_exist(Head(classes_to_register).inst,
                               Head(classes_to_register).struct)
  THEN [reg EXCEPT !.outcome = "attribute_error"]
  ELSE register_collected(register_entry(reg, Head(classes_to_register)),
                          Tail(classes_to_register))

\* The registry built anew on every publish.
register_ui_components_fresh(reg, instance) ==
  IF Objects[instance].introspect_raises
  THEN [reg EXCEPT !.outcome = "ok"]
  ELSE register_collected([reg EXCEPT !.ui_registry = <<>>],
         collect_classes(<<>>, instance, Objects[instance].structure, None))

\* _register_ui_components(instance, cls): a failed introspection is logged
\* and the method returns.
register_ui_components(reg, instance) ==
  IF Objects[instance].introspect_raises
  THEN [reg EXCEPT !.outcome = "ok"]
  ELSE register_collected(reg,
         collect_classes(<<>>, instance, Objects[instance].structure, None))

-----------------------------------------------------------------------------
(* Publisher.publish.                                                      *)

\* The duplicate check left out.
never_published(base_path, paths) == FALSE

\* `base_path in self._base_paths`
already_published(base_path, paths) == base_path \in paths

\* The class attribute taken for granted.
assume_api_base_path(instance) == TRUE

\* hasattr(cls, "_api_base_path")
has_api_base_path(instance) == Objects[instance].has_base_path

\* raise ValueError(...)
raise(reg, error) == [reg EXCEPT !.outcome = error]

\* The instance listed and its base path left out of the set.
add_instance_unrecorded(reg, instance) ==
  [reg EXCEPT !.published_instances = Append(@, <<instance, Objects[instance].cls>>)]

\* An equal object constructed anew and stored in place of the instance
\* given: the other Library for a Library.
add_instance_of_equal_object(reg, instance) ==
  [reg EXCEPT !.base_paths = @ \cup {Objects[instance].api_base_path},
              !.published_instances =
                 Append(@, <<IF instance = "library1" THEN "library2"
                             ELSE IF instance = "library2" THEN "library1"
                             ELSE instance,
                             Objects[instance].cls>>)]

\* self._base_paths.add(base_path)
\* self._published_instances.append((instance, cls))
add_instance(reg, instance) ==
  [reg EXCEPT !.base_paths = @ \cup {Objects[instance].api_base_path},
              !.published_instances = Append(@, <<instance, Objects[instance].cls>>)]

\* if self.enable_rest: self._generate_rest_endpoints(instance, cls)
publish_rest(reg, rest_on, instance) ==
  IF rest_on THEN generate_rest_endpoints(reg, instance) ELSE reg

\* if self.enable_ui: self._register_ui_components(instance, cls), unless
\* the transport pass raised; then publish returns.
publish_ui(reg, ui_on, instance) ==
  IF reg.outcome # None THEN reg
  ELSE IF ui_on THEN register_ui_components(reg, instance)
  ELSE [reg EXCEPT !.outcome = "ok"]

\* The whole call on the registries reg; outcome is "ok" when publish
\* returns and names the exception otherwise.
publish(reg, rest_on, ui_on, instance) ==
  IF ~has_api_base_path(instance) THEN raise(reg, "missing_base_path")
  ELSE IF already_published(Objects[instance].api_base_path, reg.base_paths)
  THEN raise(reg, "already_published")
  ELSE publish_ui(publish_rest(add_instance(reg, instance), rest_on, instance),
                  ui_on, instance)

\* Publisher.get_published_classes(): (cls.__name__, cls._api_base_path) for
\* every entry of _published_instances, in order.
get_published_classes(instances) ==
  [k \in 1..Len(instances) |->
     <<instances[k][2], Objects[instances[k][1]].api_base_path>>]

\* publish from line 121 on: the call has passed both checks.
publish_checked(reg, rest_on, ui_on, instance) ==
  publish_ui(publish_rest(add_instance(reg, instance), rest_on, instance),
             ui_on, instance)

\* The registries as one record, as publish reads and writes them.
Registries ==
  [base_paths |-> base_paths, published_instances |-> published_instances,
   rest_routers |-> rest_routers, app_routes |-> app_routes,
   ui_registry |-> ui_registry, outcome |-> None]

-----------------------------------------------------------------------------
(* Serving: a request reaches the handler of a route.  The framework       *)
(* (FastAPI) validates the query string or the body against the handler's  *)
(* slots and calls the handler when every mandatory slot is supplied; the  *)
(* bound method's behaviour (what it returns or raises) is an input.       *)

\* status_code=500 of the HTTPException the handlers raise, the status of
\* an answer the handler returned, and no status: the handler never ran.
InternalServerError == 500
StatusOK == 200
NoStatus == 0

\* The value a caller supplies for a parameter.
Given == "given"

\* What a bound method does when called: it returns value, or it raises an
\* exception of class exception built with message.
returns(value) == [raises |-> FALSE, value |-> value, exception |-> None, message |-> ""]
raises(exception, message) ==
  [raises |-> TRUE, value |-> None, exception |-> exception, message |-> message]
Behaviours ==
  {returns("result"), returns(None), raises("ValueError", "boom"), raises("KeyError", "")}

\* No keyword arguments.
NoKwargs == [n \in {} |-> None]

\* No handler has been called yet.
NoExchange ==
  [prefix |-> None, path |-> None, method |-> None, supplied |-> {},
   outcome |-> "none", status_code |-> NoStatus, content |-> None, calls |-> <<>>]

\* The names of the slots, and the slot of one name.
field_names(fields) == {fields[n].name : n \in 1..Len(fields)}
field_named(fields, name) == fields[CHOOSE n \in 1..Len(fields) : fields[n].name = name]

\* The framework's validation: every slot without a default is supplied.
validated(fields, supplied) ==
  \A n \in 1..Len(fields) : fields[n].default = Ellipsis => fields[n].name \in supplied

\* Only the supplied parameters handed on, the omitted ones left out.
bind_supplied_only(fields, supplied) ==
  [name \in field_names(fields) \cap supplied |-> Given]

\* The keyword arguments the handler gets: request.model_dump() for a body,
\* the bound signature for a query: supplied values, defaults for the rest.
bind(fields, supplied) ==
  [name \in field_names(fields) |->
     IF name \in supplied THEN Given ELSE field_named(fields, name).default]

\* str(e)
str(behaviour) == behaviour.message

\* bound_method(**kwargs): the call is logged, then the method behaves.
bound_method(calls, behaviour, kwargs) ==
  [calls |-> Append(calls, kwargs), raises |-> behaviour.raises,
   value |-> behaviour.value, exception |-> behaviour.exception,
   message |-> behaviour.message]

\* The rest of the handler after the call: return result, or
\* raise HTTPException(status_code=500, detail=str(e)).
handler_result(called) ==
  IF called.raises
  THEN [outcome |-> "http_exception", status_code |-> InternalServerError,
        content |-> str(called), calls |-> called.calls]
  ELSE [outcome |-> "returned", status_code |-> StatusOK,
        content |-> called.value, calls |-> called.calls]

\* A handler without its try/except: the exception leaves as it is.
unguarded_handler(behaviour, kwargs) ==
  IF behaviour.raises
  THEN [outcome |-> behaviour.exception, status_code |-> NoStatus,
        content |-> behaviour.message, calls |-> <<kwargs>>]
  ELSE handler_result(bound_method(<<>>, behaviour, kwargs))

\* A handler that calls the method a second time after a fault.
retrying_handler(behaviour, kwargs) ==
  IF behaviour.raises
  THEN handler_result(bound_method(<<kwargs>>, behaviour, kwargs))
  ELSE handler_result(bound_method(<<>>, behaviour, kwargs))

\* async def endpoint_handler(...): try: result = bound_method(**kwargs);
\* return result; except Exception as e: raise HTTPException(500, str(e))
endpoint_handler(behaviour, kwargs) ==
  handler_result(bound_method(<<>>, behaviour, kwargs))

\* The request was refused by the validation: the handler did not run.
rejected == [outcome |-> "rejected", status_code |-> NoStatus, content |-> None, calls |-> <<>>]

\* One request to a route, from validation to result.
dispatch(route, supplied, behaviour) ==
  IF validated(route.handler.fields, supplied)
  THEN endpoint_handler(behaviour, bind(route.handler.fields, supplied))
  ELSE rejected

\* The exchange: the route called and what came of it.
exchange_of(route, supplied, result) ==
  [prefix |-> route.prefix, path |-> route.path, method |-> route.method,
   supplied |-> supplied, outcome |-> result.outcome, status_code |-> result.status_code,
   content |-> result.content, calls |-> result.calls]

\* The names of the parameters an endpoint declares.
param_names(route) == {route.parameters[n].name : n \in 1..Len(route.parameters)}

\* One request: the r-th route of the app is called with the parameters
\* supplied, and its bound method behaves as behaviour.
Call(r, supplied, behaviour) ==
  /\ r \in 1..Len(app_routes)
  /\ supplied \subseteq param_names(app_routes[r])
  /\ exchange' = exchange_of(app_routes[r], supplied,
                              dispatch(app_routes[r], supplied, behaviour))
  /\ UNCHANGED <<enable_rest, enable_ui, base_paths, published_instances,
                 rest_routers, app_routes, ui_registry, last_outcome,
                 ordered_registry, heap, publish_calls>>

\* The threads that call publish on the one Publisher.
Threads == {"t1", "t2"}

\* A thread that is not inside publish and has not raced; raced holds the
\* base paths for which a call of the thread passed the duplicate check
\* while another thread's call for the same base path stood between its
\* check and its insertion.
NoCall == [pc |-> "idle", instance |-> None, outcome |-> None, raced |-> {}]

Init ==
  /\ enable_rest \in BOOLEAN
  /\ enable_ui \in BOOLEAN
  /\ base_paths = {}
  /\ published_instances = <<>>
  /\ rest_routers = <<>>
  /\ app_routes = <<>>
  /\ ui_registry = <<>>
  /\ last_outcome = None
  /\ exchange = NoExchange
  /\ ordered_registry = <<>>
  /\ heap = [obj \in DOMAIN Objects |-> 0]
  /\ publish_calls = [t \in Threads |-> NoCall]

\* The registries and the outcome become those of the record after.
Becomes(after) ==
  /\ after.outcome \notin {"missing_base_path", "already_published"}
       => Len(published_instances) < MaxPublishes
  /\ base_paths' = after.base_paths
  /\ published_instances' = after.published_instances
  /\ rest_routers' = after.rest_routers
  /\ app_routes' = after.app_routes
  /\ ui_registry' = after.ui_registry
  /\ last_outcome' = after.outcome
  /\ UNCHANGED <<enable_rest, enable_ui, exchange, ordered_registry, heap>>

\* One call publisher.publish(instance), run from its first line to its
\* last with no other call in between.
Publish(instance) ==
  /\ Becomes(publish(Registries, enable_rest, enable_ui, instance))
  /\ UNCHANGED publish_calls

Next == \E instance \in Instances : Publish(instance)

Spec == Init /\ [][Next]_vars

WideNext == \E instance \in WideInstances : Publish(instance)

SpecWide == Init /\ [][WideNext]_vars

ServeNext ==
  \/ \E instance \in ServeInstances : Publish(instance)
  \/ \E r \in 1..Len(app_routes) :
       \E supplied \in SUBSET param_names(app_routes[r]) :
         \E behaviour \in Behaviours : Call(r, supplied, behaviour)

SpecServe == Init /\ [][ServeNext]_vars

OrderNext == \E instance \in OrderInstances : Publish(instance)

SpecOrder == Init /\ [][OrderNext]_vars

\* The instances of the concurrency scenarios.
ConcInstances == {"library1", "library2", "shelving1", "invalid1"}

\* The threads other than t whose call for base_path has passed the
\* duplicate check and not yet reached line 121.
between_check_and_add(t, base_path) ==
  {u \in Threads \ {t} :
     /\ publish_calls[u].pc = "checked"
     /\ Objects[publish_calls[u].instance].api_base_path = base_path}

\* The thread's call raised at line 107 or 116.
raised(t, instance, error) ==
  /\ publish_calls' = [publish_calls EXCEPT
                        ![t] = [@ EXCEPT !.instance = instance, !.outcome = error]]
  /\ last_outcome' = error
  /\ UNCHANGED <<enable_rest, enable_ui, base_paths, published_instances,
                 rest_routers, app_routes, ui_registry, exchange, ordered_registry,
                 heap>>

\* The thread's call passed both checks and stands before line 121.
passed(t, instance) ==
  /\ publish_calls' = [u \in Threads |->
                 IF u = t
                 THEN [pc |-> "checked", instance |-> instance, outcome |-> None,
                       raced |-> IF between_check_and_add(t, Objects[instance].api_base_path) # {}
                                 THEN publish_calls[t].raced \cup {Objects[instance].api_base_path}
                                 ELSE publish_calls[t].raced]
                 ELSE IF u \in between_check_and_add(t, Objects[instance].api_base_path)
                 THEN [publish_calls[u] EXCEPT !.raced = @ \cup {Objects[instance].api_base_path}]
                 ELSE publish_calls[u]]
  /\ UNCHANGED <<enable_rest, enable_ui, base_paths, published_instances,
                 rest_routers, app_routes, ui_registry, last_outcome, exchange,
                 ordered_registry, heap>>

\* Lines 103-119 of publish, run by thread t: the two checks, which read
\* _base_paths and write nothing.
Check(t, instance) ==
  /\ publish_calls[t].pc = "idle"
  /\ Len(published_instances) < MaxPublishes
  /\ IF ~has_api_base_path(instance) THEN raised(t, instance, "missing_base_path")
     ELSE IF already_published(Objects[instance].api_base_path, base_paths)
     THEN raised(t, instance, "already_published")
     ELSE passed(t, instance)

\* Lines 121-132 of publish, run by thread t: the insertion into
\* _base_paths and the two passes.  No lock is held between Check and Add.
Add(t) ==
  /\ publish_calls[t].pc = "checked"
  /\ Becomes(publish_checked(Registries, enable_rest, enable_ui, publish_calls[t].instance))
  /\ publish_calls' = [publish_calls EXCEPT ![t] = [@ EXCEPT !.pc = "idle",
         !.outcome = publish_checked(Registries, enable_rest, enable_ui,
                                     publish_calls[t].instance).outcome]]

ConcNext ==
  \/ \E t \in Threads : \E instance \in ConcInstances : Check(t, instance)
  \/ \E t \in Threads : Add(t)

SpecConc == Init /\ [][ConcNext]_vars

-----------------------------------------------------------------------------
(* The ordering engine: Publisher._get_ordered_ui_registry.                *)

\* depth_first_traverse(base_path) and its loop over the registry items;
\* trav holds the closure's visited set and ordered_paths list.
RECURSIVE depth_first_traverse(_, _, _)
RECURSIVE traverse_items(_, _, _, _)
depth_first_traverse(trav, registry, base_path) ==
  IF base_path \in trav.visited THEN trav
  ELSE traverse_items([visited |-> trav.visited \cup {base_path},
                       ordered_paths |-> Append(trav.ordered_paths, base_path)],
                      registry, base_path, 1)

traverse_items(trav, registry, base_path, i) ==
  IF i > Len(registry) THEN trav
  ELSE traverse_items(IF registry[i].parent_path = base_path
                      THEN depth_first_traverse(trav, registry, registry[i].key)
                      ELSE trav,
                      registry, base_path, i + 1)

\* for root_path in sorted(root_paths): depth_first_traverse(root_path)
RECURSIVE traverse_roots(_, _, _)
traverse_roots(trav, registry, roots) ==
  IF roots = <<>> THEN trav
  ELSE traverse_roots(depth_first_traverse(trav, registry, Head(roots)),
                      registry, Tail(roots))

\* for config_path in sorted(config_paths): appended unless visited
RECURSIVE append_configs(_, _)
append_configs(trav, configs) ==
  IF configs = <<>> THEN trav
  ELSE append_configs(IF Head(configs) \notin trav.visited
                      THEN [trav EXCEPT !.ordered_paths = Append(@, Head(configs))]
                      ELSE trav,
                      Tail(configs))

\* The parentless entries, split by the "config" test on the class name.
root_paths(registry) ==
  {registry[i].key : i \in {j \in 1..Len(registry) :
      registry[j].parent_path = None /\ ~is_config_class(registry[j].class_name)}}

config_paths(registry) ==
  {registry[i].key : i \in {j \in 1..Len(registry) :
      registry[j].parent_path = None /\ is_config_class(registry[j].class_name)}}

\* The base paths of the returned list, in order.
get_ordered_ui_registry(registry) ==
  append_configs(
    traverse_roots([visited |-> {}, ordered_paths |-> <<>>], registry,
                   sorted(root_paths(registry))),
    sorted(config_paths(registry))).ordered_paths

\* ordered_registry = self._get_ordered_ui_registry(): the engine reads the
\* registry and writes none of the Publisher's attributes.
Order ==
  /\ ordered_registry' = get_ordered_ui_registry(ui_registry)
  /\ UNCHANGED <<enable_rest, enable_ui, base_paths, published_instances,
                 rest_routers, app_routes, ui_registry, last_outcome, exchange, heap,
                 publish_calls>>

\* The instances of the lifecycle scenarios: valid roots (a root published
\* again is a duplicate), a class without base path, and roots whose publish
\* fails after the duplicate check, whose endpoints cannot all be bound or
\* whose descriptor has no base path.
LifeInstances ==
  {"library1", "invalid1", "broken1", "legacy1", "archive1", "bare1"}

\* Every operation of a Publisher: publish, a request to a route, and the
\* ordering of the presentation registry.
LifeNext ==
  \/ \E instance \in LifeInstances : Publish(instance)
  \/ \E r \in 1..Len(app_routes) :
       \E supplied \in SUBSET param_names(app_routes[r]) :
         \E behaviour \in Behaviours : Call(r, supplied, behaviour)
  \/ Order

SpecLife == Init /\ [][LifeNext]_vars

\* How many records the caller adds to one domain object.
MaxRecords == 1

\* The domain objects the caller writes to, and the instances it publishes
\* in the ownership scenarios.
WrittenObjects == {"library1", "shelf1", "desk1"}
OwnInstances == {"library1", "library2", "store1", "vault1", "invalid1"}

\* The caller changes the data of a domain object (library.add_shelf(...),
\* library.add_book(...)), before or after it is published.
DomainWrite(obj) ==
  /\ heap[obj] < MaxRecords
  /\ heap' = [heap EXCEPT ![obj] = @ + 1]
  /\ UNCHANGED <<enable_rest, enable_ui, base_paths, published_instances,
                 rest_routers, app_routes, ui_registry, last_outcome, exchange,
                 ordered_registry, publish_calls>>

OwnNext ==
  \/ \E instance \in OwnInstances : Publish(instance)
  \/ \E obj \in WrittenObjects : DomainWrite(obj)

SpecOwn == Init /\ [][OwnNext]_vars

-----------------------------------------------------------------------------
(* Properties.                                                             *)

\* The instance of the k-th entry of _published_instances.
published(k) == published_instances[k][1]
PublishedSet == {published(k) : k \in 1..Len(published_instances)}

\* An instance whose publish raises nothing: its class carries a base path,
\* introspection works, and every function its descriptors name exists.
valid_instance(i) ==
  /\ Objects[i].has_base_path
  /\ ~Objects[i].introspect_raises
  /\ LET collected == collect_classes(<<>>, i, Objects[i].structure, None)
     IN \A n \in 1..Len(collected) :
          bound_methods_exist(collected[n].inst, collected[n].struct)

\* Every base path a descriptor tree declares.
RECURSIVE struct_paths(_)
RECURSIVE structs_paths(_)
struct_paths(struct) == {struct.base_path} \cup structs_paths(struct.children)
structs_paths(children) ==
  IF children = <<>> THEN {}
  ELSE struct_paths(Head(children)) \cup structs_paths(Tail(children))

\* The descendants of inst, at any depth, whose chain of child bindings
\* resolves to public attributes of the declared class.
RECURSIVE descendants(_, _)
descendants(inst, children) ==
  IF children = <<>> THEN {}
  ELSE LET c == Head(children)
           m == find_child_rest(inst, c.class_name)
       IN (IF m = None THEN {}
           ELSE {[path |-> c.base_path, inst |-> m, struct |-> c]}
                  \cup descendants(m, c.children))
          \cup descendants(inst, Tail(children))

\* The declared children, at any depth below resolved parents, that no
\* attribute of the parent matches.
RECURSIVE unresolved(_, _)
unresolved(inst, children) ==
  IF children = <<>> THEN {}
  ELSE LET c == Head(children)
           m == find_child_ui(inst, c.class_name)
       IN (IF m = None THEN {c} ELSE unresolved(m, c.children))
          \cup unresolved(inst, Tail(children))

\* The (path, verb) pairs of a router's routes and of a registry entry.
routed_pairs(router) ==
  {<<router.routes[n].path, router.routes[n].method>> : n \in 1..Len(router.routes)}
listed_pairs(entry) ==
  {<<entry.methods[n].path, entry.methods[n].method>> : n \in 1..Len(entry.methods)}

\* Every endpoint of struct that can be bound has a route on inst under path.
endpoints_routed(path, inst, struct) ==
  \A n \in 1..Len(struct.endpoints) :
    LET e == struct.endpoints[n]
    IN (e.function_name \in Objects[inst].methods /\ e.method \in {"GET", "POST"})
       => \E r \in 1..Len(app_routes) :
            /\ app_routes[r].prefix = path
            /\ app_routes[r].path = e.path
            /\ app_routes[r].method = e.method
            /\ app_routes[r].instance = inst

\* C1: after any sequence of publish calls every base path is bound to exactly
\* one component: the routes of the app under one base path all belong to one
\* instance, which is the instance of the router kept for that base path, and
\* each registry holds one entry per base path.
C1_UniqueBasePaths ==
  /\ \A a, b \in 1..Len(app_routes) :
       app_routes[a].prefix = app_routes[b].prefix
         => app_routes[a].instance = app_routes[b].instance
  /\ \A a, b \in 1..Len(rest_routers) :
       rest_routers[a].key = rest_routers[b].key => a = b
  /\ \A a, b \in 1..Len(ui_registry) :
       ui_registry[a].key = ui_registry[b].key => a = b

\* C2: a publish whose root base path is already in the base-path set is
\* rejected as already published and leaves every registry as it was; a
\* publish that succeeds puts its base path in that set, which never shrinks.
C2_DuplicateRejected ==
  [][/\ base_paths \subseteq base_paths'
     /\ \A i \in Instances :
          /\ (last_outcome' = "ok" /\ Objects[i].api_base_path \notin base_paths')
               => ~Publish(i)
          /\ (Objects[i].has_base_path /\ Objects[i].api_base_path \in base_paths
                /\ Publish(i))
               => last_outcome' = "already_published" /\ UNCHANGED registries]_vars

\* C2 witness: a second Library was rejected after the first was registered.
C2_Witness ==
  /\ last_outcome = "already_published"
  /\ "/library" \in base_paths
  /\ PublishedSet = {"library1"}
  /\ enable_rest /\ DictHas(rest_routers, "/library")
  /\ enable_ui /\ DictHas(ui_registry, "/library")

\* C3: publishing an instance whose class has no _api_base_path is rejected
\* and changes no registry, and every valid instance with a fresh base path
\* is still published successfully afterwards.
C3_MissingContractNoMutation ==
  [][\A i \in Instances :
       (~Objects[i].has_base_path /\ Publish(i)) =>
         /\ last_outcome' = "missing_base_path"
         /\ UNCHANGED registries
         /\ \A j \in Instances :
              (valid_instance(j) /\ Objects[j].api_base_path \notin base_paths')
                => publish(Registries, enable_rest, enable_ui, j).outcome = "ok"]_vars

\* C3 witness: the rejection happened on a Publisher that already holds a
\* registration and can still take another.
C3_Witness ==
  /\ last_outcome = "missing_base_path"
  /\ PublishedSet = {"library1"}
  /\ DictHas(ui_registry, "/shelf")
  /\ Len(published_instances) < MaxPublishes

\* C4: a publish call that fails, for whatever reason, leaves the base-path
\* set, the published-instance list, the routing table and the presentation
\* registry as they were.
C4_AllOrNothing ==
  [][\A i \in Instances :
       (last_outcome' # "ok" /\ Publish(i)) => UNCHANGED registries]_vars

\* C5: once a router or a registry entry exists for a base path, no later
\* publish changes it.
C5_FirstDiscoveryWins ==
  [][/\ \A p \in KeySet(ui_registry) :
          DictHas(ui_registry', p) /\ DictGet(ui_registry', p) = DictGet(ui_registry, p)
     /\ \A p \in KeySet(rest_routers) :
          DictHas(rest_routers', p) /\ DictGet(rest_routers', p) = DictGet(rest_routers, p)]_vars

\* C6: after one publish, whose descriptor tree may reach a child base path
\* more than once, the registry has one entry per base path and the app has
\* no route twice.
C6_DedupWithinOnePublish ==
  Len(published_instances) = 1 =>
    /\ \A a, b \in 1..Len(ui_registry) :
         ui_registry[a].key = ui_registry[b].key => a = b
    /\ \A a, b \in 1..Len(app_routes) :
         (/\ app_routes[a].prefix = app_routes[b].prefix
          /\ app_routes[a].path = app_routes[b].path
          /\ app_routes[a].method = app_routes[b].method) => a = b

\* C7: for every published valid root, every descendant whose chain of child
\* bindings resolves is registered and has its endpoints routed.
C7_RecursiveDiscovery ==
  \A i \in PublishedSet :
    valid_instance(i) =>
      \A d \in descendants(i, Objects[i].structure.children) :
        /\ enable_rest => /\ DictHas(rest_routers, d.path)
                          /\ endpoints_routed(d.path, d.inst, d.struct)
        /\ enable_ui => DictHas(ui_registry, d.path)

\* C8: for every published valid root with a declared child that no
\* attribute matches, the publish succeeded, neither table holds a base path
\* of the unresolved subtree, and the root and every resolvable subtree
\* beside it are registered.
C8_UnresolvedChildPrunesOnlySubtree ==
  \A i \in PublishedSet :
    (valid_instance(i) /\ unresolved(i, Objects[i].structure.children) # {}) =>
      /\ \A u \in unresolved(i, Objects[i].structure.children) :
           \A p \in struct_paths(u) :
             ~DictHas(rest_routers, p) /\ ~DictHas(ui_registry, p)
      /\ enable_rest => DictHas(rest_routers, Objects[i].api_base_path)
      /\ enable_ui => DictHas(ui_registry, Objects[i].api_base_path)
      /\ \A d \in descendants(i, Objects[i].structure.children) :
           /\ enable_rest => DictHas(rest_routers, d.path)
           /\ enable_ui => DictHas(ui_registry, d.path)

\* C9: with routing and presentation enabled and only valid instances
\* published, both tables hold the same base paths and, per base path, the
\* same (endpoint path, verb) pairs.
C9_SameSurface ==
  (enable_rest /\ enable_ui /\ \A i \in PublishedSet : valid_instance(i)) =>
    /\ KeySet(rest_routers) = KeySet(ui_registry)
    /\ \A p \in KeySet(rest_routers) \cap KeySet(ui_registry) :
         routed_pairs(DictGet(rest_routers, p)) = listed_pairs(DictGet(ui_registry, p))

\* C10: the ordered sequence holds every base path of the presentation
\* registry exactly once.
C10_OrderingTotal ==
  LET ordered == get_ordered_ui_registry(ui_registry)
  IN /\ {ordered[n] : n \in 1..Len(ordered)} = KeySet(ui_registry)
     /\ Len(ordered) = Len(ui_registry)

-----------------------------------------------------------------------------
(* Properties of the ordering engine and of the parent links.              *)

\* The elements of a sequence, and the place of one of them.
elements(seq) == {seq[n] : n \in 1..Len(seq)}
position(seq, x) == CHOOSE n \in 1..Len(seq) : seq[n] = x

\* The keys of the entries without a parent, by the "config" test.
parentless(registry) ==
  {p \in KeySet(registry) : DictGet(registry, p).parent_path = None}
primary_roots(registry) ==
  {p \in parentless(registry) : ~is_config_class(DictGet(registry, p).class_name)}
configuration_roots(registry) ==
  {p \in parentless(registry) : is_config_class(DictGet(registry, p).class_name)}

\* The entry reached from p by following parent_path at most fuel times.
RECURSIVE climb(_, _, _)
climb(registry, p, fuel) ==
  IF fuel = 0 \/ ~DictHas(registry, p) THEN p
  ELSE IF DictGet(registry, p).parent_path = None THEN p
  ELSE climb(registry, DictGet(registry, p).parent_path, fuel - 1)

\* The top of the chain of parents of p.
root_of(registry, p) == climb(registry, p, Len(registry))

\* C11: in the ordered sequence every primary root and every entry below a
\* primary root comes before every configuration root (a parentless entry
\* whose class name contains "config" in any case); the primary roots are
\* in ascending order of base path, and so are the configuration roots.
C11_OrderingPartition ==
  /\ parentless(ui_registry) \subseteq elements(get_ordered_ui_registry(ui_registry))
  /\ \A c \in configuration_roots(ui_registry) :
       \A e \in KeySet(ui_registry) :
         root_of(ui_registry, e) \in primary_roots(ui_registry) =>
           /\ e \in elements(get_ordered_ui_registry(ui_registry))
           /\ position(get_ordered_ui_registry(ui_registry), e)
                < position(get_ordered_ui_registry(ui_registry), c)
  /\ \A a, b \in primary_roots(ui_registry) :
       StrLess(a, b) => position(get_ordered_ui_registry(ui_registry), a)
                          < position(get_ordered_ui_registry(ui_registry), b)
  /\ \A a, b \in configuration_roots(ui_registry) :
       StrLess(a, b) => position(get_ordered_ui_registry(ui_registry), a)
                          < position(get_ordered_ui_registry(ui_registry), b)

\* C11 witness: the roots /zzz, /bbb and the configuration root /aaa_config
\* are registered, /zzz first, and the order is /bbb and its subtree, /zzz
\* and its subtree, /aaa_config.
C11_Witness ==
  /\ parentless(ui_registry) = {"/zzz", "/bbb", "/aaa_config"}
  /\ published(1) = "archive1"
  /\ get_ordered_ui_registry(ui_registry)
       = <<"/bbb", "/desk", "/dept", "/aisle", "/zzz", "/box", "/aaa_config">>

\* C11 second witness: two configuration roots, registered in descending
\* order of base path, follow a primary root in ascending order.
C11_ConfigRootsSorted ==
  /\ published_instances = <<<<"config2", "DbCONFIG">>, <<"config1", "SiteConfig">>,
                             <<"dept1", "Dept">>>>
  /\ get_ordered_ui_registry(ui_registry) = <<"/dept", "/aisle", "/aaa_config", "/conf">>

\* The registries of a Publisher just constructed.
EmptyRegistries ==
  [base_paths |-> {}, published_instances |-> <<>>, rest_routers |-> <<>>,
   app_routes |-> <<>>, ui_registry |-> <<>>, outcome |-> None]

\* The presentation registry of a fresh Publisher after publish(instance).
registry_after(instance) == publish(EmptyRegistries, FALSE, TRUE, instance).ui_registry

\* The content of a registry: base path -> (class name, endpoints, parent),
\* whatever the order of insertion.
mapping(registry) ==
  {[base_path |-> registry[n].key, class_name |-> registry[n].class_name,
    methods |-> registry[n].methods, parent_path |-> registry[n].parent_path] :
     n \in 1..Len(registry)}

\* C12: the ordered sequence depends on the content of the registry only:
\* whenever the registry holds the same mapping as the registry a fresh
\* Publisher builds by publishing one instance, both are ordered alike.
C12_OrderingDeterminism ==
  \A i \in OrderInstances :
    mapping(ui_registry) = mapping(registry_after(i))
      => get_ordered_ui_registry(ui_registry)
           = get_ordered_ui_registry(registry_after(i))

\* Following parent_path from p ends at a parentless entry within fuel steps
\* and never leaves the registry.
RECURSIVE reaches_root(_, _, _)
reaches_root(registry, p, fuel) ==
  /\ DictHas(registry, p)
  /\ \/ DictGet(registry, p).parent_path = None
     \/ /\ fuel > 0
        /\ reaches_root(registry, DictGet(registry, p).parent_path, fuel - 1)

\* C13: in every reachable state each registry entry with a parent path has
\* a parent that is a key of the registry, and the chain of parents of every
\* entry ends at a parentless entry: the entries form a forest.
C13_ParentValidity ==
  \A n \in 1..Len(ui_registry) :
    /\ ui_registry[n].parent_path # None => DictHas(ui_registry, ui_registry[n].parent_path)
    /\ reaches_root(ui_registry, ui_registry[n].key, Len(ui_registry))

\* C13 witness: /dept, first registered as a root, was registered again as
\* the child of /bbb, and /aisle hangs two levels below the root.
C13_Witness ==
  /\ published_instances = <<<<"dept1", "Dept">>, <<"store1", "Store">>>>
  /\ DictHas(ui_registry, "/aisle")
  /\ DictGet(ui_registry, "/aisle").parent_path = "/dept"
  /\ DictGet(ui_registry, "/dept").parent_path = "/bbb"
  /\ DictGet(ui_registry, "/bbb").parent_path = None

\* The descendants declared below the component inst registered at path
\* whose chain of child bindings resolves to attributes of the declared
\* class, each with the base path of the component it was found on.
RECURSIVE resolved_entries(_, _, _)
resolved_entries(inst, path, children) ==
  IF children = <<>> THEN {}
  ELSE (IF find_child_ui(inst, Head(children).class_name) = None THEN {}
        ELSE {[path |-> Head(children).base_path, parent_path |-> path,
               instance |-> find_child_ui(inst, Head(children).class_name)]}
               \cup resolved_entries(find_child_ui(inst, Head(children).class_name),
                                     Head(children).base_path, Head(children).children))
       \cup resolved_entries(inst, path, Tail(children))

\* The entries publish(i) is to register: the root and its resolved descendants.
expected_entries(i) ==
  {[path |-> Objects[i].api_base_path, parent_path |-> None, instance |-> i]}
    \cup resolved_entries(i, Objects[i].api_base_path, Objects[i].structure.children)

\* C14: a successful publish of a root registers one parentless entry for
\* the root and one entry per descendant whose bindings resolve, each with
\* the base path of the component it was found on as parent, and nothing
\* else; a Library with its one child /shelf on an empty registry gives two
\* entries ordered /library, /shelf.
C14_ParentAssignment ==
  [][\A i \in WideInstances :
       (/\ enable_ui
        /\ valid_instance(i)
        /\ Objects[i].api_base_path \notin base_paths
        /\ Publish(i))
       => /\ KeySet(ui_registry')
               = KeySet(ui_registry) \cup {e.path : e \in expected_entries(i)}
          /\ \A e \in expected_entries(i) :
               /\ DictHas(ui_registry', e.path)
               /\ DictGet(ui_registry', e.path).parent_path = e.parent_path
               /\ DictGet(ui_registry', e.path).instance = e.instance
          /\ (i = "library1" /\ ui_registry = <<>>)
               => /\ Len(ui_registry') = 2
                  /\ DictGet(ui_registry', "/shelf").parent_path = "/library"
                  /\ get_ordered_ui_registry(ui_registry') = <<"/library", "/shelf">>]_vars

-----------------------------------------------------------------------------
(* Properties of the handlers.                                             *)

\* The route's declared parameters that a request must carry: the required
\* ones and the optional ones that declare no default.
callable_with(route, supplied) ==
  \A n \in 1..Len(route.parameters) :
    (route.parameters[n].required \/ route.parameters[n].default = Ellipsis)
      => route.parameters[n].name \in supplied

\* The exchange is a call of this route.
exchange_with(route, ex) ==
  ex.prefix = route.prefix /\ ex.path = route.path /\ ex.method = route.method

C16_PassThroughOnce ==
  [][\A r \in 1..Len(app_routes) :
       (/\ exchange_with(app_routes[r], exchange')
        /\ callable_with(app_routes[r], exchange'.supplied)) =>
         \A behaviour \in Behaviours :
           Call(r, exchange'.supplied, behaviour) =>
                 /\ Len(exchange'.calls) = 1
                 /\ ~behaviour.raises =>
                      /\ exchange'.outcome = "returned"
                      /\ exchange'.content = behaviour.value]_vars

\* C16 witness: the GET handler with parameters returned the None its
\* method returned, after one call of the method.
C16_Witness ==
  /\ exchange.prefix = "/svc" /\ exchange.path = "/search" /\ exchange.method = "GET"
  /\ exchange.outcome = "returned"
  /\ exchange.content = None
  /\ Len(exchange.calls) = 1

\* The declared parameter of a name.
param_named(route, name) ==
  route.parameters[CHOOSE n \in 1..Len(route.parameters) : route.parameters[n].name = name]

\* C17: when a GET or POST endpoint is called without an optional parameter
\* whose declared default is the empty string, the bound method is called
\* with that parameter among its keyword arguments, equal to the empty
\* string.
C17_EmptyStringDefault ==
  [][\A r \in 1..Len(app_routes) :
       (/\ exchange_with(app_routes[r], exchange')
        /\ callable_with(app_routes[r], exchange'.supplied)) =>
         \A behaviour \in Behaviours :
           Call(r, exchange'.supplied, behaviour) =>
                 \A name \in param_names(app_routes[r]) \ exchange'.supplied :
                   (/\ ~param_named(app_routes[r], name).required
                    /\ param_named(app_routes[r], name).default = "")
                   => /\ Len(exchange'.calls) = 1
                      /\ name \in DOMAIN exchange'.calls[1]
                      /\ exchange'.calls[1][name] = ""]_vars

\* C17 witness: POST /svc/create was called with x alone and its method got
\* x as given and y as the empty string.
C17_Witness ==
  /\ exchange.prefix = "/svc" /\ exchange.path = "/create" /\ exchange.method = "POST"
  /\ Len(exchange.calls) = 1
  /\ DOMAIN exchange.calls[1] = {"x", "y"}
  /\ exchange.calls[1]["x"] = Given
  /\ exchange.calls[1]["y"] = ""

\* C17 second witness: the same through the GET handler.
C17_WitnessGet ==
  /\ exchange.prefix = "/svc" /\ exchange.path = "/search" /\ exchange.method = "GET"
  /\ Len(exchange.calls) = 1
  /\ exchange.calls[1] = [name \in {"x", "y"} |-> IF name = "x" THEN Given ELSE ""]

\* The declared parameters of the routes of the app, each with the slot
\* (schema field or signature parameter) synthesized for it.
slots ==
  UNION {{[method |-> app_routes[r].method, param |-> app_routes[r].parameters[n],
           slot |-> app_routes[r].handler.fields[n]] :
            n \in 1..Len(app_routes[r].parameters)} : r \in 1..Len(app_routes)}

\* C18: for an optional parameter the synthesized default is: none (a
\* mandatory slot) when no default is declared, and otherwise the declared
\* default itself, be it the empty string, None or another value; two
\* optional parameters with different declared defaults never get the same
\* synthesized default.
C18_DefaultDecoding ==
  /\ \A s \in slots :
       ~s.param.required => s.slot.default = s.param.default
  /\ \A s, t \in slots :
       (~s.param.required /\ ~t.param.required /\ s.param.default # t.param.default)
         => s.slot.default # t.slot.default

\* C19: a required parameter, whatever default it declares, gets a
\* mandatory slot in the POST schema and in the GET signature, and a call
\* that omits it is refused without the bound method being called.
C19_RequiredIsMandatory ==
  [][/\ \A s \in slots : s.param.required => s.slot.default = Ellipsis
     /\ \A r \in 1..Len(app_routes) :
          (/\ exchange_with(app_routes[r], exchange')
           /\ \E name \in param_names(app_routes[r]) \ exchange'.supplied :
                param_named(app_routes[r], name).required)
            => \A behaviour \in Behaviours :
                 Call(r, exchange'.supplied, behaviour) =>
                   exchange'.outcome = "rejected" /\ exchange'.calls = <<>>]_vars

\* C19 witness: GET /svc/find was called with everything but f, which is
\* required and declares the default "zzz"; the call was refused.
C19_Witness ==
  /\ exchange.prefix = "/svc" /\ exchange.path = "/find" /\ exchange.method = "GET"
  /\ exchange.supplied = {"a", "c", "d", "e"}
  /\ exchange.outcome = "rejected"
  /\ exchange.calls = <<>>

\* The closed set of basic type tags and the type of each.
BasicTypes ==
  [str |-> PyStr, int |-> PyInt, float |-> PyFloat, bool |-> PyBool,
   dict |-> PyDict, list |-> PyList, Any |-> PyAny]

\* C20: the type of every slot is the primitive type of its tag when the
\* tag is one of the basic set, and Any for every other tag.
C20_TypeTagMapping ==
  \A s \in slots :
    s.slot.type = IF s.param.type \in DOMAIN BasicTypes
                  THEN BasicTypes[s.param.type] ELSE PyAny

\* C20 witness: the Service is published and its slots cover the seven
\* basic tags and four tags outside the set.
C20_Witness ==
  /\ {s.param.type : s \in slots}
       = DOMAIN BasicTypes \cup {"list[str]", "dict[str, int]", "any", "Book"}
  /\ \E s \in slots : s.param.type = "list[str]" /\ s.slot.type = PyAny
  /\ \E s \in slots : s.param.type = "list" /\ s.slot.type = PyList

-----------------------------------------------------------------------------
(* Properties of route binding, of the registries' growth and of the       *)
(* published-instance list.                                                *)

\* The names of the slots of a handler, in the order of its signature.
slot_names(route) == [n \in 1..Len(route.handler.fields) |-> route.handler.fields[n].name]

\* The names of the declared parameters, in the order of the descriptor.
declared_names(route) == [n \in 1..Len(route.parameters) |-> route.parameters[n].name]

\* C21: a GET endpoint with parameters reads a query with one named slot
\* per declared parameter, a POST endpoint with parameters reads one body
\* with one field per declared parameter, and an endpoint without
\* parameters reads nothing; every call that passes validation calls the
\* bound method once with keyword arguments whose keys are exactly the
\* declared parameter names, each holding the supplied value or else the
\* synthesized default, and with no argument at all when none is declared.
C21_BindingByVerb ==
  [][/\ \A r \in 1..Len(app_routes) :
          /\ slot_names(app_routes[r]) = declared_names(app_routes[r])
          /\ app_routes[r].handler.reads =
               IF app_routes[r].parameters = <<>> THEN "nothing"
               ELSE IF app_routes[r].method = "GET" THEN "query" ELSE "body"
     /\ \A r \in 1..Len(app_routes) :
          (/\ exchange_with(app_routes[r], exchange')
           /\ callable_with(app_routes[r], exchange'.supplied)) =>
            \A behaviour \in Behaviours :
              Call(r, exchange'.supplied, behaviour) =>
                /\ Len(exchange'.calls) = 1
                /\ DOMAIN exchange'.calls[1] = param_names(app_routes[r])
                /\ \A name \in param_names(app_routes[r]) :
                     exchange'.calls[1][name] =
                       IF name \in exchange'.supplied THEN Given
                       ELSE field_named(app_routes[r].handler.fields, name).default
                /\ app_routes[r].parameters = <<>> => exchange'.calls[1] = NoKwargs]_vars

\* C21 witness: GET /svc/find was called with a and f alone and its method
\* got all five declared parameters, the omitted ones at their defaults.
C21_Witness ==
  /\ exchange.prefix = "/svc" /\ exchange.path = "/find" /\ exchange.method = "GET"
  /\ exchange.supplied = {"a", "f"}
  /\ Len(exchange.calls) = 1
  /\ DOMAIN exchange.calls[1] = {"a", "c", "d", "e", "f"}
  /\ exchange.calls[1]["a"] = Given
  /\ exchange.calls[1]["c"] = None
  /\ exchange.calls[1]["e"] = "abc"

\* C21 second witness: POST /svc/reset, which declares no parameter, called
\* its method with no argument.
C21_WitnessNoParams ==
  /\ exchange.prefix = "/svc" /\ exchange.path = "/reset" /\ exchange.method = "POST"
  /\ exchange.calls = <<NoKwargs>>

\* The path a route is served at: the prefix of its router, then the path
\* given to add_api_route.
full_path(route) == route.prefix \o route.path

\* The key of a route and the instance its handler is bound to.
route_key(route) ==
  [path |-> full_path(route), method |-> route.method, instance |-> route.instance]

\* The keys of the endpoints of struct that _create_endpoint can bind on
\* inst, for a component whose base path is base_path.
endpoint_keys(base_path, inst, struct) ==
  {[path |-> base_path \o struct.endpoints[n].path, method |-> struct.endpoints[n].method,
    instance |-> inst] :
     n \in {m \in 1..Len(struct.endpoints) :
              /\ struct.endpoints[m].function_name \in Objects[inst].methods
              /\ struct.endpoints[m].method \in {"GET", "POST"}}}

\* The children declared by struct that the transport pass finds on inst.
found_children(inst, struct) ==
  {[path |-> struct.children[n].base_path,
    inst |-> find_child_rest(inst, struct.children[n].class_name),
    struct |-> struct.children[n]] :
     n \in {m \in 1..Len(struct.children) :
              find_child_rest(inst, struct.children[m].class_name) # None}}

\* C22: every endpoint bound for a published root or for a child found on
\* it has a route whose path is the base path of its own component followed
\* by the endpoint's path, with the endpoint's verb, bound to the component's
\* instance; and every route of the app has such a key for a component whose
\* bindings resolve: no route of a child lies below the base path of its
\* parent.  The child /shelf of the root /library is served at
\* /shelf/list_books and /shelf/count_books, the root under /library.
C22_RouteKeys ==
  /\ \A i \in PublishedSet :
       (enable_rest /\ ~Objects[i].introspect_raises) =>
         /\ endpoint_keys(Objects[i].api_base_path, i, Objects[i].structure)
              \subseteq {route_key(app_routes[r]) : r \in 1..Len(app_routes)}
         /\ \A c \in found_children(i, Objects[i].structure) :
              endpoint_keys(c.path, c.inst, c.struct)
                \subseteq {route_key(app_routes[r]) : r \in 1..Len(app_routes)}
  /\ \A r \in 1..Len(app_routes) :
       \E i \in PublishedSet :
         \/ route_key(app_routes[r])
              \in endpoint_keys(Objects[i].api_base_path, i, Objects[i].structure)
         \/ \E d \in descendants(i, Objects[i].structure.children) :
              route_key(app_routes[r]) \in endpoint_keys(d.path, d.inst, d.struct)
  /\ (enable_rest /\ "library1" \in PublishedSet) =>
       /\ {k \in {route_key(app_routes[r]) : r \in 1..Len(app_routes)} :
             k.instance = "shelf1"}
            = {[path |-> "/shelf/list_books", method |-> "GET", instance |-> "shelf1"],
               [path |-> "/shelf/count_books", method |-> "POST", instance |-> "shelf1"]}
       /\ {k \in {route_key(app_routes[r]) : r \in 1..Len(app_routes)} :
             k.instance = "library1"}
            = {[path |-> "/library/list_shelves", method |-> "GET", instance |-> "library1"],
               [path |-> "/library/get_stats", method |-> "GET", instance |-> "library1"]}

\* C22 witness: a Library and a Store are published with routing enabled;
\* the Library's child is served at /shelf/list_books and the Store's child
\* at /desk/open, and nothing at /library/shelf/list_books.
C22_Witness ==
  /\ enable_rest
  /\ PublishedSet = {"library1", "store1"}
  /\ \E r \in 1..Len(app_routes) :
       /\ full_path(app_routes[r]) = "/shelf/list_books"
       /\ app_routes[r].method = "GET"
       /\ app_routes[r].instance = "shelf1"
  /\ \E r \in 1..Len(app_routes) :
       full_path(app_routes[r]) = "/desk/open" /\ app_routes[r].instance = "desk1"
  /\ \A r \in 1..Len(app_routes) :
       full_path(app_routes[r]) # "/library/shelf/list_books"

\* The routes of the app as a set of keys.
route_keys(routes) == {route_key(routes[r]) : r \in 1..Len(routes)}

\* C23: no operation (a publish that succeeds, a publish that fails, the
\* ordering, a handler call) removes anything: the base-path set, the base
\* paths of the routing table and of the presentation registry and the
\* routes of the app after a step contain those before it.
C23_MonotoneGrowth ==
  [][/\ base_paths \subseteq base_paths'
     /\ KeySet(rest_routers) \subseteq KeySet(rest_routers')
     /\ KeySet(ui_registry) \subseteq KeySet(ui_registry')
     /\ Len(app_routes) <= Len(app_routes')
     /\ SubSeq(app_routes', 1, Len(app_routes)) = app_routes
     /\ route_keys(app_routes) \subseteq route_keys(app_routes')]_vars

\* C23 witness: after two roots were registered in all three tables, a
\* route was called, the registry was ordered and a third publish failed in
\* its presentation pass; the first registrations are all still there.
C23_Witness ==
  /\ enable_rest /\ enable_ui
  /\ Len(published_instances) = 3
  /\ published(1) = "library1" /\ published(3) = "legacy1"
  /\ last_outcome = "attribute_error"
  /\ exchange.outcome = "returned"
  /\ Len(ordered_registry) >= 2
  /\ {"/library", "/shelf"} \subseteq KeySet(rest_routers) \cap KeySet(ui_registry)
  /\ "/library" \in base_paths

\* C24: get_published_classes returns the empty list on a fresh Publisher;
\* a publish call that returns normally appends the one pair (class name,
\* base path) of its root to what it returns, and every other step (a
\* publish call that raises, a request, an ordering) leaves it as it was,
\* so that it lists the successful publish calls in call order, without the
\* discovered children.
C24_PublishedClasses ==
  /\ get_published_classes(published_instances) = <<>>
  /\ [][/\ \A i \in LifeInstances :
             Publish(i) =>
               get_published_classes(published_instances') =
                 IF last_outcome' = "ok"
                 THEN Append(get_published_classes(published_instances),
                             <<Objects[i].cls, Objects[i].api_base_path>>)
                 ELSE get_published_classes(published_instances)
        /\ (\A i \in LifeInstances : ~Publish(i)) =>
             get_published_classes(published_instances')
               = get_published_classes(published_instances)]_vars

\* The same for the publish calls that are rejected before any registry is
\* written or that return normally.
C24_WithoutLateFailures ==
  /\ get_published_classes(published_instances) = <<>>
  /\ [][/\ \A i \in LifeInstances :
             (Publish(i) /\ last_outcome' \in {"ok", "missing_base_path", "already_published"}) =>
               get_published_classes(published_instances') =
                 IF last_outcome' = "ok"
                 THEN Append(get_published_classes(published_instances),
                             <<Objects[i].cls, Objects[i].api_base_path>>)
                 ELSE get_published_classes(published_instances)
        /\ (\A i \in LifeInstances : ~Publish(i)) =>
             get_published_classes(published_instances')
               = get_published_classes(published_instances)]_vars

\* A Library with its child and an Archive were published, in that order,
\* and a second Library and a class without base path were rejected.
C24_TwoRootsListed ==
  /\ get_published_classes(published_instances)
       = <<<<"Library", "/library">>, <<"Archive", "/zzz">>>>
  /\ DictHas(ui_registry, "/shelf")
  /\ last_outcome = "already_published"

\* The objects that are attributes of obj (getattr returns them).
attribute_objects(obj) == {a.obj : a \in {b \in Objects[obj].attrs : ~b.raises}}

\* The registry entries and the routes a step has written.
written_entries ==
  {ui_registry'[n] : n \in {m \in 1..Len(ui_registry') :
      ~DictHas(ui_registry, ui_registry'[m].key)
        \/ DictGet(ui_registry, ui_registry'[m].key) # ui_registry'[m]}}
written_routes ==
  {app_routes'[r] : r \in (Len(app_routes) + 1)..Len(app_routes')}

\* C25: a publish call stores the very instance it was given in the
\* published-instance list and in the root's registry entry and binds the
\* root's routes to it; the entries and routes of children hold objects
\* that are attributes of the component they were found on; every stored
\* reference is an object that existed before the call; and the call leaves
\* the set of domain objects and the data of each as they were, so that the
\* data written before the call is read unchanged through the stored
\* reference.
C25_NonOwningReference ==
  [][\A i \in OwnInstances :
       Publish(i) =>
         /\ heap' = heap
         /\ Len(published_instances') > Len(published_instances) =>
              /\ published_instances' = Append(published_instances, <<i, Objects[i].cls>>)
              /\ heap'[published_instances'[Len(published_instances')][1]] = heap[i]
         /\ \A e \in written_entries :
              /\ e.instance \in DOMAIN heap
              /\ e.parent_path = None => e.instance = i
              /\ e.parent_path # None =>
                   /\ DictHas(ui_registry', e.parent_path)
                   /\ e.instance
                        \in attribute_objects(DictGet(ui_registry', e.parent_path).instance)
         /\ \A route \in written_routes :
              /\ route.instance \in DOMAIN heap
              /\ route.prefix = Objects[i].api_base_path => route.instance = i
              /\ route.prefix # Objects[i].api_base_path =>
                   route.instance \in attribute_objects(i)]_vars

\* C25 witness: records were added to a Library and to its ShelfManager,
\* then the Library was published; the list, the registry and the routes
\* hold these two objects, with their records.
C25_Witness ==
  /\ enable_rest /\ enable_ui
  /\ published_instances = <<<<"library1", "Library">>>>
  /\ last_outcome = "ok"
  /\ heap[published(1)] = MaxRecords
  /\ DictGet(ui_registry, "/library").instance = "library1"
  /\ DictGet(ui_registry, "/shelf").instance = "shelf1"
  /\ heap[DictGet(ui_registry, "/shelf").instance] = MaxRecords
  /\ \E r \in 1..Len(app_routes) : app_routes[r].instance = "shelf1"

\* The base path of the k-th published instance.
published_path(k) == Objects[published(k)].api_base_path

\* C26: with publish called from two threads and no lock between the
\* duplicate check and the insertion, a base path is registered by two
\* publish calls only when the two calls interleaved: each passed the check
\* while the other stood between its check and its insertion.  Calls that
\* the caller serializes never register a base path twice.
C26_ConcurrentPublishUnsafe ==
  \A a, b \in 1..Len(published_instances) :
    (a # b /\ published_path(a) = published_path(b)) =>
      \E t, u \in Threads :
        /\ t # u
        /\ published_path(a) \in publish_calls[t].raced
        /\ published_path(a) \in publish_calls[u].raced

\* C26 witness: two calls for /library interleaved, both passed the check,
\* both returned normally with no exception, and /library is registered twice.
C26_Witness ==
  /\ publish_calls["t1"].pc = "idle" /\ publish_calls["t1"].outcome = "ok"
  /\ publish_calls["t2"].pc = "idle" /\ publish_calls["t2"].outcome = "ok"
  /\ publish_calls["t1"].instance = "library1" /\ publish_calls["t2"].instance = "library2"
  /\ Len(published_instances) = 2
  /\ published_path(1) = "/library" /\ published_path(2) = "/library"
  /\ base_paths = {"/library"}

-----------------------------------------------------------------------------
(* Properties of the traversal, of the two child resolutions and of what a *)
(* publish call registers.                                                 *)

\* The entries whose chain of parents ends at root, root included.
subtree(registry, root) == {p \in KeySet(registry) : root_of(registry, p) = root}

\* The place of a key in the iteration order of the registry.
index(registry, k) == CHOOSE n \in 1..Len(registry) : registry[n].key = k

\* C27: every entry of the registry that has a parent is in the ordered
\* sequence, after its parent; the subtree of each primary root fills one
\* contiguous block of the sequence that starts with the root and ends
\* before any later primary root; and two children of one parent come in
\* the order in which the registry iterates over them (its insertion order).
C27_DepthFirstPreOrder ==
  LET ordered == get_ordered_ui_registry(ui_registry)
  IN /\ \A e \in KeySet(ui_registry) :
          DictGet(ui_registry, e).parent_path # None =>
            /\ e \in elements(ordered)
            /\ DictGet(ui_registry, e).parent_path \in elements(ordered)
            /\ position(ordered, DictGet(ui_registry, e).parent_path) < position(ordered, e)
     /\ \A root \in primary_roots(ui_registry) :
          /\ subtree(ui_registry, root) \subseteq elements(ordered)
          /\ {position(ordered, p) : p \in subtree(ui_registry, root)}
               = position(ordered, root)
                   ..(position(ordered, root) + Cardinality(subtree(ui_registry, root)) - 1)
          /\ \A later \in primary_roots(ui_registry) :
               StrLess(root, later) =>
                 \A p \in subtree(ui_registry, root) :
                   position(ordered, p) < position(ordered, later)
     /\ \A a, b \in elements(ordered) :
          (/\ a # b
           /\ DictGet(ui_registry, a).parent_path # None
           /\ DictGet(ui_registry, a).parent_path = DictGet(ui_registry, b).parent_path) =>
            (position(ordered, a) < position(ordered, b)
               <=> index(ui_registry, a) < index(ui_registry, b))

\* The same for the entries that the sequence holds: each comes after its
\* parent, the block of every primary root is contiguous and complete, and
\* siblings keep the registry's order.
C27_AmongListedEntries ==
  LET ordered == get_ordered_ui_registry(ui_registry)
  IN /\ \A e \in elements(ordered) :
          DictGet(ui_registry, e).parent_path # None =>
            /\ DictGet(ui_registry, e).parent_path \in elements(ordered)
            /\ position(ordered, DictGet(ui_registry, e).parent_path) < position(ordered, e)
     /\ \A root \in primary_roots(ui_registry) :
          /\ subtree(ui_registry, root) \subseteq elements(ordered)
          /\ {position(ordered, p) : p \in subtree(ui_registry, root)}
               = position(ordered, root)
                   ..(position(ordered, root) + Cardinality(subtree(ui_registry, root)) - 1)
     /\ \A a, b \in elements(ordered) :
          (/\ a # b
           /\ DictGet(ui_registry, a).parent_path # None
           /\ DictGet(ui_registry, a).parent_path = DictGet(ui_registry, b).parent_path) =>
            (position(ordered, a) < position(ordered, b)
               <=> index(ui_registry, a) < index(ui_registry, b))

\* A state of the traversal: /dept was registered as a root before the
\* Store that holds it and an Archive: the block of /bbb is /bbb, /dept, /aisle, /desk, with
\* /dept before its sibling /desk as in the registry, then the block of /zzz.
C27_SiblingsInRegistryOrder ==
  /\ published_instances
       = <<<<"dept1", "Dept">>, <<"archive1", "Archive">>, <<"store1", "Store">>>>
  /\ DictKeys(ui_registry) = <<"/dept", "/aisle", "/zzz", "/box", "/bbb", "/desk">>
  /\ get_ordered_ui_registry(ui_registry)
       = <<"/bbb", "/dept", "/aisle", "/desk", "/zzz", "/box">>

\* C28: for every child base path that one publish call registers both in
\* the routing table and in the presentation registry, the routes are bound
\* to the very object that the registry entry stores.
C28_SameInstanceBothPasses ==
  [][\A i \in WideInstances :
       Publish(i) =>
         \A e \in written_entries :
           e.parent_path # None =>
             \A route \in written_routes :
               route.prefix = e.key => route.instance = e.instance]_vars

\* The same for the components whose children are all truthy and sit on
\* attributes without a leading underscore.
C28_PublicTruthyChildren ==
  [][\A i \in WideInstances \ {"vault1"} :
       Publish(i) =>
         \A e \in written_entries :
           e.parent_path # None =>
             \A route \in written_routes :
               route.prefix = e.key => route.instance = e.instance]_vars

\* A Library was published with both passes enabled: the routes of /shelf
\* and the entry of /shelf hold the same ShelfManager.
C28_LibraryChildShared ==
  /\ enable_rest /\ enable_ui
  /\ published_instances = <<<<"library1", "Library">>>>
  /\ DictGet(ui_registry, "/shelf").instance = "shelf1"
  /\ \E r \in 1..Len(app_routes) :
       app_routes[r].prefix = "/shelf" /\ app_routes[r].instance = "shelf1"

\* C29: whenever a publish call returns normally, the presentation registry
\* (when enabled) holds a parentless entry under the base path of the
\* published class, and the routing table (when enabled) holds a router
\* under that base path, whatever the descriptor: also when it carries no
\* base path or when its introspection fails in the presentation pass.
C29_RootRegistered ==
  [][\A i \in LifeInstances :
       (Publish(i) /\ last_outcome' = "ok") =>
         /\ enable_ui =>
              /\ DictHas(ui_registry', Objects[i].api_base_path)
              /\ DictGet(ui_registry', Objects[i].api_base_path).parent_path = None
         /\ enable_rest => DictHas(rest_routers', Objects[i].api_base_path)]_vars

\* The same for the instances whose descriptor is obtained and carries the
\* base path of the class.
C29_WithDescriptorBasePath ==
  [][\A i \in LifeInstances :
       (/\ Publish(i)
        /\ last_outcome' = "ok"
        /\ ~Objects[i].introspect_raises
        /\ Objects[i].structure.base_path = Objects[i].api_base_path) =>
         /\ enable_ui =>
              /\ DictHas(ui_registry', Objects[i].api_base_path)
              /\ DictGet(ui_registry', Objects[i].api_base_path).parent_path = None
         /\ enable_rest => DictHas(rest_routers', Objects[i].api_base_path)]_vars

\* A publish call returned normally for a class whose descriptor has no
\* base path: the router is there, the registry entry is not.
C29_BareRootHasNoEntry ==
  /\ enable_rest /\ enable_ui
  /\ last_outcome = "ok"
  /\ published_instances = <<<<"bare1", "Bare">>>>
  /\ DictHas(rest_routers, "/bare")
  /\ ui_registry = <<>>

\* The endpoint names a function the instance has and carries GET or POST.
bindable(inst, endpoint_info) ==
  /\ endpoint_info.function_name \in Objects[inst].methods
  /\ endpoint_info.method \in {"GET", "POST"}

\* C30: when the transport pass of a publish call meets an endpoint whose
\* function the instance does not have, or whose verb is neither GET nor
\* POST, it adds no route for it and raises nothing: the pass ends without
\* an exception (and so does publish when the presentation pass is off),
\* the router of the component holds one route for each of its other
\* endpoints, in their order, and none for the unbindable one.
C30_UnbindableSkipped ==
  [][\A i \in LifeInstances :
       (/\ enable_rest
        /\ ~Objects[i].introspect_raises
        /\ Len(published_instances') > Len(published_instances)
        /\ Publish(i)) =>
         /\ publish_rest(add_instance(Registries, i), enable_rest, i).outcome = None
         /\ ~enable_ui => last_outcome' = "ok"
         /\ DictHas(rest_routers', Objects[i].api_base_path)
         /\ \A n \in 1..Len(Objects[i].structure.endpoints) :
              /\ bindable(i, Objects[i].structure.endpoints[n]) =>
                   \E route \in written_routes :
                     /\ route.prefix = Objects[i].api_base_path
                     /\ route.path = Objects[i].structure.endpoints[n].path
                     /\ route.method = Objects[i].structure.endpoints[n].method
                     /\ route.instance = i
              /\ ~bindable(i, Objects[i].structure.endpoints[n]) =>
                   \A route \in written_routes :
                     ~(/\ route.prefix = Objects[i].api_base_path
                       /\ route.path = Objects[i].structure.endpoints[n].path)
         /\ Len(DictGet(rest_routers', Objects[i].api_base_path).routes)
              = Cardinality({n \in 1..Len(Objects[i].structure.endpoints) :
                               bindable(i, Objects[i].structure.endpoints[n])})]_vars

\* C30 witness: an Archive whose first endpoint is a PUT and a Legacy whose
\* second endpoint names a missing function were published with routing
\* alone: both calls returned, /zzz serves only GET /size and /legacy only
\* GET /ping.
C30_Witness ==
  /\ enable_rest /\ ~enable_ui
  /\ last_outcome = "ok"
  /\ PublishedSet = {"archive1", "legacy1"}
  /\ {route_key(app_routes[r]) : r \in {q \in 1..Len(app_routes) :
                                          app_routes[q].prefix = "/zzz"}}
       = {[path |-> "/zzz/size", method |-> "GET", instance |-> "archive1"]}
  /\ {route_key(app_routes[r]) : r \in {q \in 1..Len(app_routes) :
                                          app_routes[q].prefix = "/legacy"}}
       = {[path |-> "/legacy/ping", method |-> "GET", instance |-> "legacy1"]}

====
